---- MODULE Spec2Model ----
(***************************************************************************)
(* The lease lock and the guarded key-value table of                       *)
(* cp93pytools/easySQLite.py (class KeyValueSQLiteTable).                  *)
(*                                                                         *)
(* Every SQL statement runs on a connection of its own and commits on its  *)
(* own (SQLiteDB._execute), so one statement is one atomic step and the    *)
(* steps of concurrent callers interleave freely.  Time is a discrete      *)
(* clock read by time.time().                                              *)
(***************************************************************************)
EXTENDS Integers, Sequences, FiniteSets, TLC

VARIABLES rows, now, proc

vars == <<rows, now, proc>>

\* ------------------------------------------------------------- bounds
NumProcs == 2
NumKeys == 3
MaxTime == 2
MaxDuration == 1
MaxTimeout == 1
\* time.sleep(request_every), in clock ticks
RequestEvery == 1
\* max_duration of ask_token and wait_token when the caller gives none
DefaultMaxDuration == 1

Procs == 1..NumProcs
Keys == 1..NumKeys
\* the token caller p draws: 1 + random.random() is no other caller's token
TokensOf(p) == {p}
Tokens == UNION {TokensOf(p) : p \in Procs}
Durations == 0..MaxDuration
Timeouts == 0..MaxTimeout
\* the key tuples a scope is opened on: one key, or two distinct keys
KeySeqs == {<<k>> : k \in Keys} \cup {s \in Keys \X Keys : s[1] # s[2]}

\* ------------------------------------------------------------- values
\* Python values (by their repr) that the table stores, and the SQL NULL
PyNone == "None"
PyValues == {"None", "''", "'HELLO'"}
NULL == "NULL"

json_dumps(v) ==
  CASE v = "None" -> "null"
    [] v = "'HELLO'" -> "\"HELLO\""
    [] v = "''" -> "\"\""
    [] v = "False" -> "false"
    [] v = "0" -> "0"

json_loads(s) ==
  CASE s = "null" -> "None"
    [] s = "\"HELLO\"" -> "'HELLO'"
    [] s = "\"\"" -> "''"
    [] s = "false" -> "False"
    [] s = "0" -> "0"

\* ------------------------------------------------------------- the table
\* a row of the table (key is the index of rows); present = FALSE: no row
NoRow == [present |-> FALSE, value |-> NULL, lock_token |-> 0, locked_until |-> 0]

Row(value, lock_token, locked_until) ==
  [present |-> TRUE, value |-> value, lock_token |-> lock_token,
   locked_until |-> locked_until]

\* _current_lock: the row's lock fields, None (here NoRow) without a row
current_lock(key) ==
  IF rows[key].present THEN [rows[key] EXCEPT !.value = NULL] ELSE NoRow

\* mutant of getitem: the stored text is returned without json.loads
getitem_NotDecoded(key) ==
  IF ~rows[key].present THEN "KeyError" ELSE rows[key].value

\* mutant of getitem: a key without a row reads as a stored null
getitem_AbsentIsNull(key) ==
  json_loads(IF ~rows[key].present \/ rows[key].value \in {NULL, ""}
             THEN "null" ELSE rows[key].value)

\* KeyValueSQLiteTable.__getitem__: KeyError without a row, else the decoded
\* value, where a NULL or empty text decodes as 'null'
KeyError == "KeyError"

getitem(key) ==
  IF ~rows[key].present THEN KeyError
  ELSE json_loads(IF rows[key].value \in {NULL, ""} THEN "null" ELSE rows[key].value)

\* KeyValueSQLiteTable.get: the default instead of KeyError
get(key, default) == IF getitem(key) = KeyError THEN default ELSE getitem(key)

\* ------------------------------------------------------------- callers
None == 0

Idle ==
  [pc |-> "idle", op |-> "none", keys |-> <<>>, token |-> None,
   max_duration |-> 0, unlock |-> TRUE, i |-> 0, gained |-> TRUE,
   timeout |-> 0, deadline |-> 0, wake |-> 0, yielded |-> None,
   ctx |-> "scope", a_key |-> 0, a_token |-> None, a_unlock |-> TRUE,
   a_del |-> FALSE, value |-> PyNone, d |-> NoRow, lu |-> 0,
   stole |-> FALSE, started |-> 0, exc |-> "none", ret |-> "none"]

\* Idle.stole is a history field, not a local of the code: the upsert of the
\* running _ask_access replaced the token of a caller that was granted the key
\* Idle.started is a history field too: the time at which the running
\* wait_token was entered

\* a fresh random token of p: no row holds it
FreshTokens(p) == {t \in TokensOf(p) : \A k \in Keys : rows[k].lock_token # t}

\* mutant of CallKey: the statements of a scope act on the key after theirs
CallKey_Other(r) ==
  IF r.ctx = "assert" THEN r.a_key ELSE (r.keys[r.i] % NumKeys) + 1

\* the arguments of the running _ask_access / _unlock call
CallKey(r) == IF r.ctx = "assert" THEN r.a_key ELSE r.keys[r.i]
CallToken(r) == IF r.ctx = "assert" THEN r.a_token ELSE r.token
CallDuration(r) == IF r.ctx = "assert" THEN 0 ELSE r.max_duration

Init ==
  /\ rows = [k \in Keys |-> NoRow]
  /\ now = 0
  /\ proc = [p \in Procs |-> Idle]

\* ------------------------------------------------------------- control flow
AskOps == {"ask_token", "ask_set", "ask_del"}
WaitOps == {"wait_token", "wait_set", "wait_del"}
UserScopes == {"ask_token", "wait_token"}

\* mutant of create_deadline: the timeout is left out of the deadline
create_deadline_Immediate(timeout, t) == t

\* create_deadline at time t
NoTimeout == -1
Infinity == MaxTime + MaxTimeout + 1
create_deadline(timeout, t) == IF timeout = NoTimeout THEN Infinity ELSE t + timeout

\* the operation is over: its result stays readable until the caller goes on
Done(r) ==
  [r EXCEPT !.pc = "done", !.ctx = "scope", !.i = 0, !.max_duration = 0,
            !.timeout = 0, !.deadline = 0, !.started = 0]

\* the finally block of ask_token / wait_token: release every key, in order
Finally(r) ==
  IF r.unlock THEN [r EXCEPT !.pc = "ul_read", !.ctx = "scope", !.i = 1]
  ELSE Done(r)

\* the with-block of assert_token is left (set / delete return or raise)
AfterAssert(r) ==
  IF r.op \in {"set", "delete"} THEN Done(r)
  ELSE IF r.exc = "none" /\ r.op \in UserScopes
       THEN [r EXCEPT !.pc = "body", !.ctx = "scope", !.a_key = 0,
                      !.a_token = None, !.value = PyNone]
       ELSE Finally(r)

\* the finally block of assert_token
AssertFinally(r) ==
  IF r.a_unlock THEN [r EXCEPT !.pc = "ul_read"] ELSE AfterAssert(r)

\* mutant of AfterAskAccess: one deadline is shared by the keys of a wait
AfterAskAccess_SharedDeadline(r, granted, t) ==
  IF r.ctx = "assert"
  THEN IF granted THEN [r EXCEPT !.pc = "write"]
       ELSE AssertFinally([r EXCEPT !.exc = "EasySQLiteTokenError"])
  ELSE IF r.op \in AskOps
  THEN LET g == r.gained /\ granted IN
       IF r.i < Len(r.keys)
       THEN [r EXCEPT !.gained = g, !.i = @ + 1, !.pc = "aa_read"]
       ELSE [r EXCEPT !.gained = g, !.pc = "body", !.i = 0,
                      !.yielded = IF g THEN r.token ELSE None]
  ELSE IF ~granted THEN [r EXCEPT !.pc = "w_deadline"]
  ELSE IF r.i < Len(r.keys)
       THEN [r EXCEPT !.i = @ + 1, !.pc = "aa_read"]
       ELSE [r EXCEPT !.pc = "body", !.yielded = r.token, !.i = 0,
                      !.timeout = 0, !.deadline = 0, !.started = 0]

\* _ask_access returned granted at time t: the caller's next statement
AfterAskAccess(r, granted, t) ==
  IF r.ctx = "assert"
  THEN IF granted THEN [r EXCEPT !.pc = "write"]
       ELSE AssertFinally([r EXCEPT !.exc = "EasySQLiteTokenError"])
  ELSE IF r.op \in AskOps
  THEN LET g == r.gained /\ granted IN
       IF r.i < Len(r.keys)
       THEN [r EXCEPT !.gained = g, !.i = @ + 1, !.pc = "aa_read"]
       ELSE [r EXCEPT !.gained = g, !.pc = "body", !.i = 0,
                      !.yielded = IF g THEN r.token ELSE None]
  ELSE IF ~granted THEN [r EXCEPT !.pc = "w_deadline"]
  ELSE IF r.i < Len(r.keys)
       THEN [r EXCEPT !.i = @ + 1, !.pc = "aa_read",
                      !.deadline = create_deadline(r.timeout, t)]
       ELSE [r EXCEPT !.pc = "body", !.yielded = r.token, !.i = 0,
                      !.timeout = 0, !.deadline = 0, !.started = 0]

\* an exception leaves _ask_access
RaiseInAskAccess(r, e) ==
  IF r.ctx = "assert" THEN AssertFinally([r EXCEPT !.exc = e])
  ELSE Finally([r EXCEPT !.exc = e])

\* _unlock returned
AfterUnlock(r) ==
  IF r.ctx = "assert" THEN AfterAssert(r)
  ELSE IF r.i < Len(r.keys) THEN [r EXCEPT !.i = @ + 1, !.pc = "ul_read"]
  ELSE Done(r)

\* an exception leaves _unlock, which runs in a finally block
RaiseInUnlock(r, e) ==
  IF r.ctx = "assert" THEN AfterAssert([r EXCEPT !.exc = e])
  ELSE Done([r EXCEPT !.exc = e])

\* ------------------------------------------------------------- _ask_access
\* mutant of may_request: the lease counts as over at locked_until already
may_request_ExpiresEarly(d, token, t) ==
  \/ ~d.present
  \/ d.lock_token = 0
  \/ t >= d.locked_until
  \/ d.lock_token = token

\* mutant of may_request: a lease that ran out is not given up
may_request_NoExpiry(d, token, t) ==
  \/ ~d.present
  \/ d.lock_token = 0
  \/ d.lock_token = token

\* mutant of may_request: the sentinel 0 does not make the key free
may_request_NoSentinel(d, token, t) ==
  \/ ~d.present
  \/ t > d.locked_until
  \/ d.lock_token = token

\* the eligibility test of _ask_access on the row d read before, at time t
may_request(d, token, t) ==
  \/ ~d.present
  \/ d.lock_token = 0
  \/ t > d.locked_until
  \/ d.lock_token = token

\* the re-read of _ask_access: access gained
access_gained(d, token) == d.present /\ d.lock_token = token

\* d = self._current_lock(key)
AskAccessRead(p) ==
  LET r == proc[p] IN
  /\ r.pc = "aa_read"
  /\ proc' = [proc EXCEPT ![p] = [r EXCEPT !.d = current_lock(CallKey(r)),
                                           !.pc = "aa_check"]]
  /\ UNCHANGED <<rows, now>>

\* may_request = ...; without it, return False
AskAccessCheck(p) ==
  LET r == proc[p] IN
  /\ r.pc = "aa_check"
  /\ proc' = [proc EXCEPT ![p] =
       IF may_request(r.d, CallToken(r), now)
       THEN [r EXCEPT !.d = NoRow, !.pc = "aa_update"]
       ELSE AfterAskAccess([r EXCEPT !.d = NoRow], FALSE, now)]
  /\ UNCHANGED <<rows, now>>

\* the row of k holds, with a running lease, the token of a caller other than
\* p that is inside the with-block of a scope that yielded it
ReplacesGranted(p, k) ==
  \E q \in Procs \ {p} :
    /\ proc[q].pc = "body" /\ proc[q].yielded # None
    /\ \E n \in 1..Len(proc[q].keys) : proc[q].keys[n] = k
    /\ rows[k].lock_token = proc[q].yielded
    /\ now <= rows[k].locked_until

\* set_row(key, lock_token=token, locked_until=time.time() + max_duration):
\* the UPDATE of update_row
AskAccessUpdate(p) ==
  LET r == proc[p]
      k == CallKey(r)
      until == now + CallDuration(r) IN
  /\ r.pc = "aa_update"
  /\ IF rows[k].present
     THEN /\ rows' = [rows EXCEPT ![k].lock_token = CallToken(r),
                                  ![k].locked_until = until]
          /\ proc' = [proc EXCEPT ![p] =
               [r EXCEPT !.stole = ReplacesGranted(p, k), !.pc = "aa_reread"]]
     ELSE /\ proc' = [proc EXCEPT ![p] = [r EXCEPT !.lu = until, !.pc = "aa_insert"]]
          /\ UNCHANGED rows
  /\ UNCHANGED now

\* set_row: nothing was updated, so insert_row(key, lock_token, locked_until);
\* key is the primary key
AskAccessInsert(p) ==
  LET r == proc[p]
      k == CallKey(r) IN
  /\ r.pc = "aa_insert"
  /\ IF rows[k].present
     THEN /\ proc' = [proc EXCEPT ![p] = RaiseInAskAccess([r EXCEPT !.lu = 0], "IntegrityError")]
          /\ UNCHANGED rows
     ELSE /\ rows' = [rows EXCEPT ![k] = Row(NULL, CallToken(r), r.lu)]
          /\ proc' = [proc EXCEPT ![p] = [r EXCEPT !.lu = 0, !.pc = "aa_reread"]]
  /\ UNCHANGED now

\* d = self._current_lock(key); return d and d['lock_token'] == token
AskAccessReread(p) ==
  LET r == proc[p]
      d == current_lock(CallKey(r)) IN
  /\ r.pc = "aa_reread"
  /\ proc' = [proc EXCEPT ![p] =
       AfterAskAccess([r EXCEPT !.stole = FALSE], access_gained(d, CallToken(r)), now)]
  /\ UNCHANGED <<rows, now>>

\* ------------------------------------------------------------- _unlock
\* mutant of rightful_holder: any row is reset, whoever holds it
rightful_holder_AnyToken(d, token) == d.present

\* mutant of rightful_holder: every locked row is reset, whoever holds it
rightful_holder_NotFree(d, token) == d.present /\ d.lock_token # 0

\* the rightful-holder test of _unlock on the row d it read
rightful_holder(d, token) == d.present /\ d.lock_token = token

\* d = self._current_lock(key); return without a row or when another holds it
UnlockRead(p) ==
  LET r == proc[p]
      d == current_lock(CallKey(r)) IN
  /\ r.pc = "ul_read"
  /\ proc' = [proc EXCEPT ![p] =
       IF rightful_holder(d, CallToken(r))
       THEN [r EXCEPT !.pc = "ul_update"]
       ELSE AfterUnlock(r)]
  /\ UNCHANGED <<rows, now>>

\* set_row(key, lock_token=0): the UPDATE, and without a row the INSERT of
\* (key, lock_token), which the NOT NULL column locked_until refuses
UnlockUpdate(p) ==
  LET r == proc[p]
      k == CallKey(r) IN
  /\ r.pc = "ul_update"
  /\ IF rows[k].present
     THEN /\ rows' = [rows EXCEPT ![k].lock_token = 0]
          /\ proc' = [proc EXCEPT ![p] = AfterUnlock(r)]
     ELSE /\ proc' = [proc EXCEPT ![p] = RaiseInUnlock(r, "IntegrityError")]
          /\ UNCHANGED rows
  /\ UNCHANGED now

\* ------------------------------------------------------------- scopes
\* with table.ask_token(*keys, max_duration=...) as token
StartAskToken(p, keys) ==
  /\ proc[p].pc = "idle"
  /\ \E max_duration \in Durations, token \in FreshTokens(p) :
       proc' = [proc EXCEPT ![p] =
         [Idle EXCEPT !.op = "ask_token", !.keys = keys, !.token = token,
                      !.max_duration = max_duration, !.i = 1, !.pc = "aa_read"]]
  /\ UNCHANGED <<rows, now>>

\* with table.wait_token(*keys, max_duration=..., timeout=...) as token;
\* the deadline of the first key is set on entering the loop
StartWaitToken(p, keys) ==
  /\ proc[p].pc = "idle"
  /\ \E max_duration \in Durations, timeout \in Timeouts, token \in FreshTokens(p) :
       proc' = [proc EXCEPT ![p] =
         [Idle EXCEPT !.op = "wait_token", !.keys = keys, !.token = token,
                      !.max_duration = max_duration, !.timeout = timeout,
                      !.deadline = create_deadline(timeout, now),
                      !.started = now,
                      !.i = 1, !.pc = "aa_read"]]
  /\ UNCHANGED <<rows, now>>

\* wait_token, access not gained: if time.time() > deadline: raise; else sleep
WaitDeadline(p) ==
  LET r == proc[p] IN
  /\ r.pc = "w_deadline"
  /\ proc' = [proc EXCEPT ![p] =
       IF now > r.deadline
       THEN Finally([r EXCEPT !.exc = "EasySQLiteTimeoutError"])
       ELSE [r EXCEPT !.pc = "sleep", !.wake = now + RequestEvery]]
  /\ UNCHANGED <<rows, now>>

\* time.sleep(request_every) is over: ask again
WaitWake(p) ==
  LET r == proc[p] IN
  /\ r.pc = "sleep"
  /\ now >= r.wake
  /\ proc' = [proc EXCEPT ![p] = [r EXCEPT !.pc = "aa_read", !.wake = 0]]
  /\ UNCHANGED <<rows, now>>

\* the body of a with-block of the caller ends
BodyEnd(p) ==
  LET r == proc[p] IN
  /\ r.pc = "body" /\ r.op \in UserScopes
  /\ proc' = [proc EXCEPT ![p] = Finally(r)]
  /\ UNCHANGED <<rows, now>>

\* the body of a with-block of the caller raises
BodyRaise(p) ==
  LET r == proc[p] IN
  /\ r.pc = "body" /\ r.op \in UserScopes
  /\ proc' = [proc EXCEPT ![p] = Finally([r EXCEPT !.exc = "BodyError"])]
  /\ UNCHANGED <<rows, now>>

\* the body calls table.set(key, value, token) with the token it was given
BodySet(p) ==
  LET r == proc[p] IN
  /\ r.pc = "body" /\ r.op \in UserScopes
  /\ r.yielded # None
  /\ \E n \in 1..Len(r.keys), value \in PyValues :
       proc' = [proc EXCEPT ![p] =
         [r EXCEPT !.ctx = "assert", !.a_key = r.keys[n], !.a_token = r.yielded,
                   !.a_unlock = TRUE, !.a_del = FALSE, !.value = value,
                   !.pc = "aa_read"]]
  /\ UNCHANGED <<rows, now>>

\* the body calls table.delete(key, token) with the token it was given
BodyDelete(p) ==
  LET r == proc[p] IN
  /\ r.pc = "body" /\ r.op \in UserScopes
  /\ r.yielded # None
  /\ \E n \in 1..Len(r.keys) :
       proc' = [proc EXCEPT ![p] =
         [r EXCEPT !.ctx = "assert", !.a_key = r.keys[n], !.a_token = r.yielded,
                   !.a_unlock = FALSE, !.a_del = TRUE, !.pc = "aa_read"]]
  /\ UNCHANGED <<rows, now>>

\* ------------------------------------------------------------- set, delete
\* table.set(key, value, token): with self.assert_token(key, token=token)
StartSet(p, key) ==
  /\ proc[p].pc = "idle"
  /\ \E token \in TokensOf(p), value \in PyValues :
       proc' = [proc EXCEPT ![p] =
         [Idle EXCEPT !.op = "set", !.ctx = "assert", !.a_key = key,
                      !.a_token = token, !.a_unlock = TRUE, !.a_del = FALSE,
                      !.value = value, !.pc = "aa_read"]]
  /\ UNCHANGED <<rows, now>>

\* table.delete(key, token): with self.assert_token(key, token=token, _unlock=False)
StartDelete(p, key) ==
  /\ proc[p].pc = "idle"
  /\ \E token \in TokensOf(p) :
       proc' = [proc EXCEPT ![p] =
         [Idle EXCEPT !.op = "delete", !.ctx = "assert", !.a_key = key,
                      !.a_token = token, !.a_unlock = FALSE, !.a_del = TRUE,
                      !.pc = "aa_read"]]
  /\ UNCHANGED <<rows, now>>

\* the statement after a write: the finally block of the enclosing with
AfterWrite(r) == IF r.ctx = "assert" THEN AssertFinally(r) ELSE Finally(r)

\* what ask_set / ask_del return after the with-block
ReturnValue(r) == IF r.op \in {"ask_set", "ask_del"} THEN "False" ELSE "None"

\* __set_assuming_token: set_row(key, value=json.dumps(value)); without a row
\* the INSERT of (key, value), which the NOT NULL column lock_token refuses
SetAssumingToken(p) ==
  LET r == proc[p]
      k == r.a_key IN
  /\ r.pc = "write" /\ ~r.a_del
  /\ IF rows[k].present
     THEN /\ rows' = [rows EXCEPT ![k].value = json_dumps(r.value)]
          /\ proc' = [proc EXCEPT ![p] = AfterWrite([r EXCEPT !.ret = ReturnValue(r)])]
     ELSE /\ proc' = [proc EXCEPT ![p] = AfterWrite([r EXCEPT !.exc = "IntegrityError"])]
          /\ UNCHANGED rows
  /\ UNCHANGED now

\* __del_assuming_token: del_row(key)
DelAssumingToken(p) ==
  LET r == proc[p] IN
  /\ r.pc = "write" /\ r.a_del
  /\ rows' = [rows EXCEPT ![r.a_key] = NoRow]
  /\ proc' = [proc EXCEPT ![p] = AfterWrite([r EXCEPT !.ret = ReturnValue(r)])]
  /\ UNCHANGED now

\* ------------------------------------------------------------- ask_set ... wait_del
\* ask_set(key, value): with self.ask_token(key) as token
StartAskSet(p, key) ==
  /\ proc[p].pc = "idle"
  /\ \E token \in FreshTokens(p), value \in PyValues :
       proc' = [proc EXCEPT ![p] =
         [Idle EXCEPT !.op = "ask_set", !.keys = <<key>>, !.token = token,
                      !.max_duration = DefaultMaxDuration, !.value = value,
                      !.i = 1, !.pc = "aa_read"]]
  /\ UNCHANGED <<rows, now>>

\* ask_del(key): with self.ask_token(key, _unlock=False) as token
StartAskDel(p, key) ==
  /\ proc[p].pc = "idle"
  /\ \E token \in FreshTokens(p) :
       proc' = [proc EXCEPT ![p] =
         [Idle EXCEPT !.op = "ask_del", !.keys = <<key>>, !.token = token,
                      !.max_duration = DefaultMaxDuration, !.unlock = FALSE,
                      !.i = 1, !.pc = "aa_read"]]
  /\ UNCHANGED <<rows, now>>

\* wait_set(key, value, timeout=...): with self.wait_token(key, ...) as token
StartWaitSet(p, key) ==
  /\ proc[p].pc = "idle"
  /\ \E timeout \in Timeouts, token \in FreshTokens(p), value \in PyValues :
       proc' = [proc EXCEPT ![p] =
         [Idle EXCEPT !.op = "wait_set", !.keys = <<key>>, !.token = token,
                      !.max_duration = DefaultMaxDuration, !.timeout = timeout,
                      !.deadline = create_deadline(timeout, now),
                      !.started = now,
                      !.value = value, !.i = 1, !.pc = "aa_read"]]
  /\ UNCHANGED <<rows, now>>

\* wait_del(key, timeout=...): with self.wait_token(key, ..., _unlock=False)
StartWaitDel(p, key) ==
  /\ proc[p].pc = "idle"
  /\ \E timeout \in Timeouts, token \in FreshTokens(p) :
       proc' = [proc EXCEPT ![p] =
         [Idle EXCEPT !.op = "wait_del", !.keys = <<key>>, !.token = token,
                      !.max_duration = DefaultMaxDuration, !.timeout = timeout,
                      !.deadline = create_deadline(timeout, now),
                      !.started = now,
                      !.unlock = FALSE, !.i = 1, !.pc = "aa_read"]]
  /\ UNCHANGED <<rows, now>>

\* the with-block of ask_set / ask_del: if not token: return False, else write
AskBody(p) ==
  LET r == proc[p] IN
  /\ r.pc = "body" /\ r.op \in {"ask_set", "ask_del"}
  /\ proc' = [proc EXCEPT ![p] =
       IF r.yielded = None THEN Finally([r EXCEPT !.ret = "False"])
       ELSE [r EXCEPT !.a_key = r.keys[1], !.a_del = (r.op = "ask_del"),
                      !.pc = "write"]]
  /\ UNCHANGED <<rows, now>>

\* the with-block of wait_set: self.set(key, value, token)
WaitSetBody(p) ==
  LET r == proc[p] IN
  /\ r.pc = "body" /\ r.op = "wait_set"
  /\ proc' = [proc EXCEPT ![p] =
       [r EXCEPT !.ctx = "assert", !.a_key = r.keys[1], !.a_token = r.yielded,
                 !.a_unlock = TRUE, !.a_del = FALSE, !.pc = "aa_read"]]
  /\ UNCHANGED <<rows, now>>

\* the with-block of wait_del: self.__del_assuming_token(key)
WaitDelBody(p) ==
  LET r == proc[p] IN
  /\ r.pc = "body" /\ r.op = "wait_del"
  /\ proc' = [proc EXCEPT ![p] =
       [r EXCEPT !.a_key = r.keys[1], !.a_del = TRUE, !.pc = "write"]]
  /\ UNCHANGED <<rows, now>>

\* ------------------------------------------------------------- reads
\* value = table[key]
GetItem(p, key) ==
  /\ proc[p].pc = "idle"
  /\ proc' = [proc EXCEPT ![p] =
       [Idle EXCEPT !.op = "getitem", !.a_key = key, !.ret = getitem(key),
                    !.pc = "done"]]
  /\ UNCHANGED <<rows, now>>

\* value = table.get(key), with the default default=None
Get(p, key) ==
  /\ proc[p].pc = "idle"
  /\ proc' = [proc EXCEPT ![p] =
       [Idle EXCEPT !.op = "get", !.a_key = key, !.ret = get(key, PyNone),
                    !.pc = "done"]]
  /\ UNCHANGED <<rows, now>>

\* the caller goes on after an operation
Return(p) ==
  /\ proc[p].pc = "done"
  /\ proc' = [proc EXCEPT ![p] = Idle]
  /\ UNCHANGED <<rows, now>>

\* time passes
Tick ==
  /\ now < MaxTime
  /\ now' = now + 1
  /\ UNCHANGED <<rows, proc>>

LockStep(p) ==
  \/ AskAccessRead(p)
  \/ AskAccessCheck(p)
  \/ AskAccessUpdate(p)
  \/ AskAccessInsert(p)
  \/ AskAccessReread(p)
  \/ UnlockRead(p)
  \/ UnlockUpdate(p)

\* ------------------------------------------------------------- specifications
\* callers that open ask_token scopes on one key and read it
NextLock ==
  \/ Tick
  \/ \E p \in Procs :
       \/ StartAskToken(p, <<1>>)
       \/ LockStep(p)
       \/ BodyEnd(p)
       \/ BodyRaise(p)
       \/ GetItem(p, 1)
       \/ Get(p, 1)
       \/ Return(p)

SpecLock == Init /\ [][NextLock]_vars

\* callers that set and delete one key, with a token of theirs or inside
\* an ask_token scope
NextStore ==
  \/ Tick
  \/ \E p \in Procs :
       \/ StartSet(p, 1)
       \/ StartDelete(p, 1)
       \/ StartAskToken(p, <<1>>)
       \/ LockStep(p)
       \/ BodySet(p)
       \/ BodyEnd(p)
       \/ SetAssumingToken(p)
       \/ DelAssumingToken(p)
       \/ GetItem(p, 1)
       \/ Return(p)

SpecStore == Init /\ [][NextStore]_vars

\* a caller is between two calls of the table, or inside a with-block
Quiescent(p) == proc[p].pc \in {"idle", "body", "done"}

\* no caller but p is inside a call of the table
Alone(p) == \A q \in Procs \ {p} : Quiescent(q)

\* callers whose calls of the table do not overlap: a call runs from its
\* start to its return (or to the with-block it opens) before another starts
NextSerial ==
  \/ Tick
  \/ \E p \in Procs :
       \/ Alone(p) /\ StartWaitToken(p, <<1>>)
       \/ Alone(p) /\ StartAskToken(p, <<1>>)
       \/ Alone(p) /\ AskAccessRead(p)
       \/ Alone(p) /\ AskAccessCheck(p)
       \/ Alone(p) /\ AskAccessUpdate(p)
       \/ Alone(p) /\ AskAccessInsert(p)
       \/ Alone(p) /\ AskAccessReread(p)
       \/ Alone(p) /\ UnlockRead(p)
       \/ Alone(p) /\ UnlockUpdate(p)
       \/ Alone(p) /\ WaitDeadline(p)
       \/ Alone(p) /\ WaitWake(p)
       \/ Alone(p) /\ BodySet(p)
       \/ Alone(p) /\ BodyEnd(p)
       \/ Alone(p) /\ SetAssumingToken(p)
       \/ Alone(p) /\ Return(p)

SpecSerial == Init /\ [][NextSerial]_vars

\* callers whose calls do not overlap and that open ask_token scopes on one key
NextSerialAsk ==
  \/ Tick
  \/ \E p \in Procs :
       \/ Alone(p) /\ StartAskToken(p, <<1>>)
       \/ Alone(p) /\ AskAccessRead(p)
       \/ Alone(p) /\ AskAccessCheck(p)
       \/ Alone(p) /\ AskAccessUpdate(p)
       \/ Alone(p) /\ AskAccessInsert(p)
       \/ Alone(p) /\ AskAccessReread(p)
       \/ Alone(p) /\ UnlockRead(p)
       \/ Alone(p) /\ UnlockUpdate(p)
       \/ Alone(p) /\ BodyEnd(p)
       \/ Alone(p) /\ Return(p)

SpecSerialAsk == Init /\ [][NextSerialAsk]_vars

\* callers whose calls do not overlap and that set and delete one key and
\* open ask_token scopes on it
NextSerialStore ==
  \/ Tick
  \/ \E p \in Procs :
       \/ Alone(p) /\ StartAskToken(p, <<1>>)
       \/ Alone(p) /\ StartSet(p, 1)
       \/ Alone(p) /\ StartDelete(p, 1)
       \/ Alone(p) /\ AskAccessRead(p)
       \/ Alone(p) /\ AskAccessCheck(p)
       \/ Alone(p) /\ AskAccessUpdate(p)
       \/ Alone(p) /\ AskAccessInsert(p)
       \/ Alone(p) /\ AskAccessReread(p)
       \/ Alone(p) /\ UnlockRead(p)
       \/ Alone(p) /\ UnlockUpdate(p)
       \/ Alone(p) /\ BodyEnd(p)
       \/ Alone(p) /\ SetAssumingToken(p)
       \/ Alone(p) /\ DelAssumingToken(p)
       \/ Alone(p) /\ Return(p)

SpecSerialStore == Init /\ [][NextSerialStore]_vars

\* one caller opens ask_token scopes on two keys, the others delete keys
NextRelease ==
  \/ Tick
  \/ StartAskToken(1, <<1, 2>>)
  \/ \E p \in Procs \ {1}, k \in Keys : StartDelete(p, k)
  \/ \E p \in Procs :
       \/ LockStep(p)
       \/ BodyEnd(p)
       \/ DelAssumingToken(p)
       \/ Return(p)

SpecRelease == Init /\ [][NextRelease]_vars

\* a lease that outlasts the clock of the model: a key held for good
LongLease == MaxTime + 1

\* with table.ask_token(*keys, max_duration=LongLease) as token
StartHold(p, keys) ==
  /\ proc[p].pc = "idle"
  /\ \E token \in FreshTokens(p) :
       proc' = [proc EXCEPT ![p] =
         [Idle EXCEPT !.op = "ask_token", !.keys = keys, !.token = token,
                      !.max_duration = LongLease, !.i = 1, !.pc = "aa_read"]]
  /\ UNCHANGED <<rows, now>>

\* callers whose calls do not overlap and that call ask_set and ask_del on
\* one key, or hold it in an ask_token scope
NextSerialTry ==
  \/ Tick
  \/ \E p \in Procs :
       \/ Alone(p) /\ StartAskSet(p, 1)
       \/ Alone(p) /\ StartAskDel(p, 1)
       \/ Alone(p) /\ StartAskToken(p, <<1>>)
       \/ Alone(p) /\ AskAccessRead(p)
       \/ Alone(p) /\ AskAccessCheck(p)
       \/ Alone(p) /\ AskAccessUpdate(p)
       \/ Alone(p) /\ AskAccessInsert(p)
       \/ Alone(p) /\ AskAccessReread(p)
       \/ Alone(p) /\ UnlockRead(p)
       \/ Alone(p) /\ UnlockUpdate(p)
       \/ Alone(p) /\ AskBody(p)
       \/ Alone(p) /\ BodyEnd(p)
       \/ Alone(p) /\ SetAssumingToken(p)
       \/ Alone(p) /\ DelAssumingToken(p)
       \/ Alone(p) /\ Return(p)

SpecSerialTry == Init /\ [][NextSerialTry]_vars

\* callers whose calls do not overlap, that open ask_token scopes on one key
\* and delete it inside the scope; caller 2 also reads the key
NextSerialDelete ==
  \/ Tick
  \/ \E p \in Procs :
       \/ Alone(p) /\ StartAskToken(p, <<1>>)
       \/ Alone(p) /\ AskAccessRead(p)
       \/ Alone(p) /\ AskAccessCheck(p)
       \/ Alone(p) /\ AskAccessUpdate(p)
       \/ Alone(p) /\ AskAccessInsert(p)
       \/ Alone(p) /\ AskAccessReread(p)
       \/ Alone(p) /\ UnlockRead(p)
       \/ Alone(p) /\ UnlockUpdate(p)
       \/ Alone(p) /\ BodyDelete(p)
       \/ Alone(p) /\ BodyEnd(p)
       \/ Alone(p) /\ DelAssumingToken(p)
       \/ Alone(p) /\ Return(p)
  \/ Alone(2) /\ GetItem(2, 1)
  \/ Alone(2) /\ Get(2, 1)

SpecSerialDelete == Init /\ [][NextSerialDelete]_vars

\* callers whose calls do not overlap: caller 1 opens ask_token scopes on one
\* key, the others set and delete the key with a token of theirs
NextSerialVerify ==
  \/ Tick
  \/ Alone(1) /\ StartAskToken(1, <<1>>)
  \/ Alone(1) /\ BodyEnd(1)
  \/ \E p \in Procs \ {1} :
       \/ Alone(p) /\ StartSet(p, 1)
       \/ Alone(p) /\ StartDelete(p, 1)
  \/ \E p \in Procs :
       \/ Alone(p) /\ AskAccessRead(p)
       \/ Alone(p) /\ AskAccessCheck(p)
       \/ Alone(p) /\ AskAccessUpdate(p)
       \/ Alone(p) /\ AskAccessInsert(p)
       \/ Alone(p) /\ AskAccessReread(p)
       \/ Alone(p) /\ UnlockRead(p)
       \/ Alone(p) /\ UnlockUpdate(p)
       \/ Alone(p) /\ SetAssumingToken(p)
       \/ Alone(p) /\ DelAssumingToken(p)
       \/ Alone(p) /\ Return(p)

SpecSerialVerify == Init /\ [][NextSerialVerify]_vars

\* callers whose calls do not overlap and that open ask_token scopes on one
\* key, which caller 1 also sets with a token of its own
NextSerialFree ==
  \/ Tick
  \/ Alone(1) /\ StartSet(1, 1)
  \/ \E p \in Procs :
       \/ Alone(p) /\ StartAskToken(p, <<1>>)
       \/ Alone(p) /\ AskAccessRead(p)
       \/ Alone(p) /\ AskAccessCheck(p)
       \/ Alone(p) /\ AskAccessUpdate(p)
       \/ Alone(p) /\ AskAccessInsert(p)
       \/ Alone(p) /\ AskAccessReread(p)
       \/ Alone(p) /\ UnlockRead(p)
       \/ Alone(p) /\ UnlockUpdate(p)
       \/ Alone(p) /\ BodyEnd(p)
       \/ Alone(p) /\ SetAssumingToken(p)
       \/ Alone(p) /\ Return(p)

SpecSerialFree == Init /\ [][NextSerialFree]_vars

\* the statements of a wait_token call that the waiter runs by itself
WaitStep(q) == LockStep(q) \/ WaitDeadline(q) \/ WaitWake(q)

\* caller 1 holds one key with a long lease, caller 2 waits for it
NextWait ==
  \/ Tick
  \/ StartHold(1, <<1>>)
  \/ LockStep(1)
  \/ BodyEnd(1)
  \/ Return(1)
  \/ StartWaitToken(2, <<1>>)
  \/ LockStep(2)
  \/ WaitDeadline(2)
  \/ WaitWake(2)
  \/ BodyEnd(2)
  \/ Return(2)

\* the clock runs and a waiter that can take a step of its wait takes it
FairWait == WF_vars(Tick) /\ WF_vars(WaitStep(2))

SpecWait == Init /\ [][NextWait]_vars /\ FairWait

\* caller 1 locks keys 1 and 2 together and deletes them inside the scope;
\* caller 2 locks, waits for, sets and deletes key 3; the clock stands still,
\* so that every lease is running
NextKeys ==
  \/ StartAskToken(1, <<1, 2>>)
  \/ BodyDelete(1)
  \/ StartAskToken(2, <<3>>)
  \/ StartWaitToken(2, <<3>>)
  \/ StartSet(2, 3)
  \/ StartDelete(2, 3)
  \/ \E p \in Procs :
       \/ LockStep(p)
       \/ BodyEnd(p)
       \/ SetAssumingToken(p)
       \/ DelAssumingToken(p)
       \/ Return(p)

SpecKeys == Init /\ [][NextKeys]_vars

\* caller 1 opens one ask_token scope on a key and never leaves it (it
\* stopped for good); caller 2 waits for the key; the two do not start a
\* call while the other is inside one
NextCrash ==
  \/ Tick
  \/ Alone(1) /\ StartAskToken(1, <<1>>)
  \/ Alone(1) /\ AskAccessRead(1)
  \/ Alone(1) /\ AskAccessCheck(1)
  \/ Alone(1) /\ AskAccessUpdate(1)
  \/ Alone(1) /\ AskAccessInsert(1)
  \/ Alone(1) /\ AskAccessReread(1)
  \/ Alone(2) /\ StartWaitToken(2, <<1>>)
  \/ LockStep(2)
  \/ WaitDeadline(2)
  \/ WaitWake(2)
  \/ BodyEnd(2)
  \/ Return(2)

\* the clock runs and the waiter takes the steps of its wait
FairCrash == WF_vars(Tick) /\ WF_vars(WaitStep(2))

SpecCrash == Init /\ [][NextCrash]_vars /\ FairCrash

\* caller 1 waits for keys 1 and 2 together, caller 2 opens ask_token scopes
\* on key 2
NextWaitMany ==
  \/ Tick
  \/ StartWaitToken(1, <<1, 2>>)
  \/ WaitDeadline(1)
  \/ WaitWake(1)
  \/ StartAskToken(2, <<2>>)
  \/ \E p \in Procs :
       \/ LockStep(p)
       \/ BodyEnd(p)
       \/ Return(p)

SpecWaitMany == Init /\ [][NextWaitMany]_vars

\* ------------------------------------------------------------- claims
\* p is inside the with-block of a scope that yielded its token on key k
Granted(p, k) ==
  /\ proc[p].pc = "body"
  /\ proc[p].yielded # None
  /\ \E n \in 1..Len(proc[p].keys) : proc[p].keys[n] = k

\* the lease p asked for on entering has time left, whenever p acquired
LeaseRunning(p) == now < proc[p].max_duration

\* C1: of two callers with distinct tokens whose Acquire-one calls on a key
\* interleave while both leases run, at most one is granted
C1_MutualExclusion ==
  \A p \in Procs, q \in Procs, k \in Keys :
    p # q => ~(Granted(p, k) /\ Granted(q, k) /\ LeaseRunning(p) /\ LeaseRunning(q))

\* p takes a step
Stepped(p) == proc'[p] # proc[p]

\* C2: a write or delete of a key's value happens while the row holds the
\* writer's token and the writer's lease has not run out
C2_WriteUnderLease ==
  [][\A p \in Procs :
       LET r == proc[p] IN
       (r.pc = "write" /\ Stepped(p)) =>
         /\ rows[r.a_key].present
         /\ rows[r.a_key].lock_token = CallToken(r)
         /\ now <= rows[r.a_key].locked_until]_vars

\* C3: assert_token (so set and delete) raises the token error whenever the
\* row it reads does not hold the presented token
C3_VerifyRejectsNonOwner ==
  [][\A p \in Procs :
       LET r == proc[p] IN
       (r.pc = "aa_check" /\ r.ctx = "assert" /\ Stepped(p)
          /\ ~rightful_holder(r.d, r.a_token)) =>
         proc'[p].exc = "EasySQLiteTokenError"]_vars

\* the row d is held by a token other than token, with a lease running at t
HeldByOther(d, token, t) ==
  d.present /\ d.lock_token \notin {0, token} /\ t <= d.locked_until

\* C4: while another token holds the key with a running lease and nothing
\* happens in between, ask_token yields None and the row is left as it is,
\* also by the release at the exit of the denied scope
C4_DeniedWhileHeld ==
  [][\A q \in Procs :
       LET r == proc[q] IN
       /\ (r.pc = "aa_check" /\ Stepped(q) /\ r.op = "ask_token"
             /\ r.ctx = "scope" /\ Len(r.keys) = 1
             /\ r.d = current_lock(r.keys[1]) /\ HeldByOther(r.d, r.token, now)) =>
            (proc'[q].pc = "body" /\ proc'[q].yielded = None /\ rows' = rows)
       /\ (r.pc = "ul_read" /\ Stepped(q) /\ r.op = "ask_token"
             /\ r.ctx = "scope" /\ Len(r.keys) = 1 /\ r.yielded = None
             /\ rows[r.keys[1]].present
             /\ rows[r.keys[1]].lock_token \notin {0, r.token}) =>
            (proc'[q].pc = "done" /\ proc'[q].exc = r.exc /\ rows' = rows)]_vars

C4_Witness ==
  \E p \in Procs, q \in Procs :
    /\ p # q
    /\ Granted(p, 1)
    /\ rows[1].lock_token = proc[p].token
    /\ now <= rows[1].locked_until
    /\ proc[q].pc = "done" /\ proc[q].op = "ask_token"
    /\ proc[q].yielded = None /\ proc[q].exc = "none"

\* C5: an Acquire-one that finds the lease of another token run out
\* (now > locked_until) requests the key, writes its own token and a new
\* lease, and, no competitor having written since, is granted
C5_ExpiredLeaseIsGranted ==
  [][\A q \in Procs :
       LET r == proc[q] IN
       /\ (r.pc = "aa_check" /\ Stepped(q) /\ r.ctx = "scope"
             /\ r.d.present /\ r.d.lock_token \notin {0, r.token}
             /\ now > r.d.locked_until) =>
            proc'[q].pc = "aa_update"
       /\ (r.pc = "aa_update" /\ Stepped(q) /\ r.ctx = "scope"
             /\ rows[CallKey(r)].present) =>
            /\ rows'[CallKey(r)].lock_token = r.token
            /\ rows'[CallKey(r)].locked_until = now + r.max_duration
            /\ proc'[q].pc = "aa_reread"
       /\ (r.pc = "aa_reread" /\ Stepped(q) /\ r.ctx = "scope"
             /\ Len(r.keys) = 1
             /\ rows[CallKey(r)].present
             /\ rows[CallKey(r)].lock_token = r.token) =>
            /\ proc'[q].pc = "body" /\ proc'[q].yielded = r.token
            /\ rows'[CallKey(r)].lock_token = r.token]_vars

C5_Witness ==
  \E p \in Procs, q \in Procs :
    /\ p # q
    /\ Granted(p, 1) /\ proc[p].max_duration = 0
    /\ Granted(q, 1)
    /\ rows[1].lock_token = proc[q].token
    /\ rows[1].value = NULL

\* C6: _unlock on a key whose row is absent or holds another lock_token
\* (0 or another holder's) returns without a write and without an exception
C6_IdempotentRelease ==
  [][\A p \in Procs :
       LET r == proc[p] IN
       (r.pc = "ul_read" /\ Stepped(p)
          /\ ~(rows[CallKey(r)].present
               /\ rows[CallKey(r)].lock_token = CallToken(r))) =>
         /\ rows' = rows
         /\ proc'[p].exc = r.exc
         /\ proc'[p].pc # "ul_update"]_vars

C6_Witness ==
  \E p \in Procs :
    /\ proc[p].pc = "done" /\ proc[p].op = "ask_token"
    /\ proc[p].yielded # None /\ proc[p].exc = "none"
    /\ ~rows[1].present

\* C7: when a scope with the default release has exited, no key of its key
\* set holds the scope's token
C7_ReleasedOnExit ==
  \A p \in Procs :
    (proc[p].pc = "done" /\ proc[p].op \in UserScopes /\ proc[p].unlock) =>
      \A n \in 1..Len(proc[p].keys) :
        rows[proc[p].keys[n]].lock_token # proc[p].token

\* C8: while p is inside a scope that yielded its token on key k and the
\* lease p asked for has not run out, no other caller becomes granted k
C8_ScopeExclusive ==
  [][\A p \in Procs, q \in Procs, k \in Keys :
       (p # q /\ Granted(p, k) /\ LeaseRunning(p) /\ ~Granted(q, k)) =>
         ~Granted(q, k)']_vars

\* C9: the write of set(k, v, token), when it raises nothing, leaves a row
\* from which table[k] and table.get(k) read v
C9_RoundTrip ==
  [][\A p \in Procs :
       LET r == proc[p] IN
       (r.pc = "write" /\ ~r.a_del /\ Stepped(p) /\ proc'[p].exc = r.exc) =>
         /\ getitem(r.a_key)' = r.value
         /\ get(r.a_key, KeyError)' = r.value]_vars

C9_Witness ==
  \E p \in Procs :
    /\ proc[p].pc = "done" /\ proc[p].op = "set" /\ proc[p].exc = "none"
    /\ proc[p].value = PyNone
    /\ rows[1].present /\ rows[1].value = "null"
    /\ getitem(1) = PyNone

\* C10: while no set has succeeded on a key, table[key] reports absence
\* (here no caller ever calls set)
C10_AbsentUntilSet ==
  \A p \in Procs :
    (proc[p].pc = "done" /\ proc[p].op = "getitem") => proc[p].ret = KeyError

\* C11: ask_set and ask_del return True when the lock was granted and the
\* value was written or deleted, and False, with nothing written, when the
\* lock was contended
C11_ReturnsWhetherWritten ==
  [][\A p \in Procs :
       LET r == proc[p] IN
       /\ (r.pc = "write" /\ r.op \in {"ask_set", "ask_del"} /\ Stepped(p)
             /\ proc'[p].exc = "none") =>
            proc'[p].ret = "True"
       /\ (r.pc = "body" /\ r.op \in {"ask_set", "ask_del"} /\ Stepped(p)
             /\ r.yielded = None) =>
            (proc'[p].ret = "False" /\ rows' = rows)]_vars

\* q is about to ask for the key of its wait_token call
Waiting(q) == proc[q].op = "wait_token" /\ proc[q].pc = "aa_read"

\* the pc values inside the while loop of wait_token
InWaitLoop(r) ==
  r.pc \in {"aa_read", "aa_check", "aa_update", "aa_insert", "aa_reread",
            "w_deadline", "sleep"}

\* the deadline of q's wait, and the end of a sleep begun before it, are
\* reached before the clock of the model stops
WithinHorizon(q) == proc[q].deadline + RequestEvery <= MaxTime

\* a token other than q's holds the key q waits for, with a running lease
KeptHeld(q) ==
  /\ proc[q].keys # <<>>
  /\ HeldByOther(rows[proc[q].keys[1]], proc[q].token, now)

TimedOut(q) == proc[q].pc = "done" /\ proc[q].exc = "EasySQLiteTimeoutError"

\* C12: a wait_token with timeout t on one key sets its deadline t after its
\* start and keeps it, raises the timeout error only once the clock is past
\* that deadline, and, while another token keeps the key held, ends with the
\* timeout error
C12_TimeoutFires ==
  /\ [][\A q \in Procs :
          LET r == proc[q] IN
          /\ (r.pc = "idle" /\ Stepped(q) /\ proc'[q].op = "wait_token") =>
               proc'[q].deadline = now + proc'[q].timeout
          /\ (r.op = "wait_token" /\ InWaitLoop(r) /\ InWaitLoop(proc'[q])) =>
               proc'[q].deadline = r.deadline
          /\ (r.pc = "w_deadline" /\ Stepped(q)) =>
               /\ (proc'[q].exc = "EasySQLiteTimeoutError") <=> (now > r.deadline)
               /\ (proc'[q].exc # "EasySQLiteTimeoutError") => proc'[q].pc = "sleep"]_vars
  /\ \A q \in Procs :
       [](((Waiting(q) /\ WithinHorizon(q)) /\ []KeptHeld(q)) => <>TimedOut(q))

\* the timeout error of a wait with the longest timeout has been raised (the
\* release of the finally block comes next) while the key is still held
C12_Witness ==
  \E q \in Procs :
    /\ proc[q].op = "wait_token" /\ proc[q].exc = "EasySQLiteTimeoutError"
    /\ proc[q].pc = "ul_read"
    /\ proc[q].timeout = MaxTimeout
    /\ now > proc[q].deadline
    /\ KeptHeld(q)

C14_DeleteLeavesNoRow ==
  [][\A p \in Procs, k \in Keys :
       LET r == proc[p] IN
       /\ (r.pc = "aa_check" /\ r.ctx = "assert" /\ r.a_del /\ Stepped(p)
             /\ rightful_holder(r.d, r.a_token)) =>
            proc'[p].pc = "aa_update"
       /\ (r.pc = "aa_reread" /\ r.ctx = "assert" /\ r.a_del /\ Stepped(p)
             /\ r.a_key = k /\ rightful_holder(rows[k], r.a_token)) =>
            (proc'[p].pc = "write" /\ proc'[p].exc = "none")
       /\ (r.pc = "write" /\ r.a_del /\ Stepped(p)
             /\ r.a_key = k /\ rows[k].value = NULL) =>
            /\ rows'[k] = NoRow
            /\ proc'[p].exc = "none"
            /\ getitem(k)' = KeyError
            /\ get(k, PyNone)' = PyNone
            /\ \A t \in Tokens : may_request(current_lock(k), t, now)']_vars

C14_Witness ==
  \E p \in Procs, q \in Procs :
    /\ p # q
    /\ proc[p].pc = "body" /\ proc[p].yielded # None /\ proc[p].a_del
    /\ proc[p].exc = "none"
    /\ ~rows[1].present
    /\ proc[q].pc = "done" /\ proc[q].op = "getitem" /\ proc[q].ret = KeyError

\* C15: the release by the rightful holder sets lock_token to 0 and leaves
\* the rest of the row, and an ask_token that then reads lock_token = 0
\* requests the key and, no competitor writing, is granted, whether or not
\* the lease time written in the row has run out
C15_ReleaseFreesKey ==
  [][\A p \in Procs :
       LET r == proc[p]
           k == CallKey(r) IN
       /\ (r.pc = "ul_update" /\ Stepped(p) /\ rightful_holder(rows[k], CallToken(r))) =>
            rows' = [rows EXCEPT ![k].lock_token = 0]
       /\ (r.pc = "aa_check" /\ Stepped(p) /\ r.op = "ask_token" /\ r.ctx = "scope"
             /\ r.d.present /\ r.d.lock_token = 0) =>
            proc'[p].pc = "aa_update"
       /\ (r.pc = "aa_update" /\ Stepped(p) /\ r.op = "ask_token" /\ r.ctx = "scope"
             /\ rows[k].present /\ rows[k].lock_token = 0) =>
            (rows'[k].lock_token = r.token /\ proc'[p].pc = "aa_reread")
       /\ (r.pc = "aa_reread" /\ Stepped(p) /\ r.op = "ask_token" /\ r.ctx = "scope"
             /\ Len(r.keys) = 1 /\ rightful_holder(rows[k], r.token)) =>
            (proc'[p].pc = "body" /\ proc'[p].yielded = r.token)]_vars

\* q was granted the key at time 0, when no lease has run out, after p's set
\* released it
C15_Witness ==
  \E p \in Procs, q \in Procs :
    /\ p # q
    /\ proc[p].pc = "done" /\ proc[p].op = "set" /\ proc[p].exc = "none"
    /\ now = 0
    /\ Granted(q, 1)
    /\ rows[1].lock_token = proc[q].token
    /\ rows[1].value # NULL

\* the keys the operation of r works on
OpKeys(r) ==
  {r.keys[n] : n \in 1..Len(r.keys)} \cup (IF r.a_key = 0 THEN {} ELSE {r.a_key})

\* C16: a step of an operation leaves the row of every key outside the
\* operation's key set as it is, and caller 2, alone on key 3, is granted
\* key 3 whatever the others hold on keys 1 and 2
C16_KeysDoNotInteract ==
  /\ [][\A p \in Procs, k \in Keys :
          (Stepped(p) /\ k \notin OpKeys(proc[p]) /\ k \notin OpKeys(proc'[p])) =>
            rows'[k] = rows[k]]_vars
  /\ [](proc[2].pc = "body" => proc[2].yielded = proc[2].token)

C16_Witness ==
  /\ Granted(1, 1) /\ Granted(1, 2)
  /\ rows[1].lock_token = proc[1].token /\ now <= rows[1].locked_until
  /\ rows[2].lock_token = proc[1].token /\ now <= rows[2].locked_until
  /\ Granted(2, 3) /\ proc[2].op = "ask_token"
  /\ rows[3].lock_token = proc[2].token /\ now <= rows[3].locked_until

\* C17: the write of _unlock never changes a lock_token that is neither 0
\* nor the token of the releasing caller
C17_ReleaseNeverSteals ==
  [][\A p \in Procs :
       LET r == proc[p]
           k == CallKey(r) IN
       (r.pc = "ul_update" /\ Stepped(p) /\ rows[k].present
          /\ rows[k].lock_token \notin {0, CallToken(r)}) =>
         rows'[k].lock_token = rows[k].lock_token]_vars

\* C18: an _ask_access that is not eligible writes nothing and is denied, and
\* an _ask_access whose upsert replaced the token of a caller that had been
\* granted the key does not end denied
C18_DeniedMutatesNothing ==
  [][\A p \in Procs :
       LET r == proc[p] IN
       /\ (r.pc = "aa_check" /\ Stepped(p)
             /\ ~may_request(r.d, CallToken(r), now)) =>
            (rows' = rows /\ proc'[p].pc # "aa_update")
       /\ (r.pc = "aa_reread" /\ Stepped(p) /\ r.stole) =>
            access_gained(current_lock(CallKey(r)), CallToken(r))]_vars

\* a caller that was granted the key of q's wait is still inside its scope and
\* its token is in the row: with NextCrash, it stopped for good
CrashedHold(q) ==
  /\ proc[q].keys # <<>>
  /\ \E h \in Procs \ {q} :
       /\ proc[h].pc = "body" /\ proc[h].yielded # None
       /\ rows[proc[q].keys[1]].present
       /\ rows[proc[q].keys[1]].lock_token = proc[h].yielded

\* the timeout of q's wait is longer than what is left of the lease
LeaseEndsFirst(q) == rows[proc[q].keys[1]].locked_until < proc[q].deadline

\* the deadline test after a denied attempt finds the clock past the deadline
LateTest(q) == proc[q].pc = "w_deadline" /\ now > proc[q].deadline

\* C19 as stated: a wait on a key whose holder stopped for good, with a
\* timeout longer than the rest of the lease, is eventually granted the key
C19_CrashedHolderGranted ==
  \A q \in Procs :
    []((Waiting(q) /\ CrashedHold(q) /\ LeaseEndsFirst(q) /\ WithinHorizon(q)) =>
         <>Granted(q, 1))

\* C19, amended: an attempt of the wait is denied only while the lease of the
\* other token is running, and such a wait is eventually granted the key
\* unless the clock passes the deadline between a denied attempt and the
\* deadline test that follows it
C19_CrashedHolderTolerated ==
  /\ [][\A q \in Procs :
          LET r == proc[q] IN
          (r.op = "wait_token" /\ r.pc \in {"aa_check", "aa_reread"} /\ Stepped(q)
             /\ proc'[q].pc = "w_deadline") =>
            (r.pc = "aa_check" /\ HeldByOther(r.d, r.token, now) /\ rows' = rows)]_vars
  /\ \A q \in Procs :
       []((Waiting(q) /\ CrashedHold(q) /\ LeaseEndsFirst(q) /\ WithinHorizon(q)) =>
            <>(Granted(q, 1) \/ LateTest(q)))

\* the waiter took the key over from the holder that stopped inside its scope
C19_Witness ==
  /\ Granted(1, 1)
  /\ Granted(2, 1) /\ proc[2].op = "wait_token"
  /\ rows[1].lock_token = proc[2].token

\* C20: ask_token goes on to the next key after every _ask_access that
\* returns, granted or denied, yields its token iff every key was granted
\* and None otherwise, starts the release at the first key and returns only
\* after the _unlock of the last key
C20_AcquireManyAllKeys ==
  [][\A p \in Procs :
       LET r == proc[p] IN
       /\ (r.op = "ask_token" /\ r.ctx = "scope" /\ Stepped(p)
             /\ r.pc \in {"aa_check", "aa_reread"}
             /\ proc'[p].pc # "aa_update" /\ proc'[p].exc = "none") =>
            IF r.i < Len(r.keys)
            THEN proc'[p].pc = "aa_read" /\ proc'[p].i = r.i + 1
            ELSE /\ proc'[p].pc = "body"
                 /\ proc'[p].yielded \in {r.token, None}
                 /\ (proc'[p].yielded = r.token) <=>
                      (r.gained /\ r.pc = "aa_reread"
                         /\ access_gained(current_lock(CallKey(r)), r.token))
       /\ (r.op = "ask_token" /\ r.ctx = "scope" /\ r.pc = "body" /\ r.unlock
             /\ Stepped(p) /\ proc'[p].ctx = "scope") =>
            (proc'[p].pc = "ul_read" /\ proc'[p].i = 1)
       /\ (r.op = "ask_token" /\ r.unlock /\ r.pc # "done" /\ Stepped(p)
             /\ proc'[p].pc = "done") =>
            (r.pc \in {"ul_read", "ul_update"} /\ r.ctx = "scope"
               /\ r.i = Len(r.keys))]_vars

\* C21: at the step by which a wait_token over several keys yields its token,
\* every key of the set holds that token with a lease that has not run out
C21_WaitManyHoldsAll ==
  [][\A p \in Procs :
       LET r == proc[p] IN
       (r.op = "wait_token" /\ r.ctx = "scope" /\ r.pc = "aa_reread"
          /\ proc'[p].pc = "body") =>
         \A n \in 1..Len(r.keys) :
           /\ rows'[r.keys[n]].lock_token = proc'[p].yielded
           /\ now' <= rows'[r.keys[n]].locked_until]_vars

C23_ReleaseAfterDeletion ==
  [][\A p \in Procs :
       LET r == proc[p] IN
       (r.pc \in {"ul_read", "ul_update"} /\ Stepped(p)
          /\ ~rows[CallKey(r)].present) =>
         /\ proc'[p].exc = r.exc
         /\ ~rows'[CallKey(r)].present]_vars

\* C24: the upsert of an _ask_access on a key that has no row at its UPDATE
\* completes: the INSERT that follows raises nothing, the key has a row and
\* the call goes on to its re-read
C24_UpsertCompletes ==
  [][\A p \in Procs :
       LET r == proc[p] IN
       (r.pc = "aa_insert" /\ Stepped(p)) =>
         /\ proc'[p].exc = r.exc
         /\ proc'[p].pc = "aa_reread"
         /\ rows'[CallKey(r)].present]_vars

====
